---- MODULE Spec2Model ----
(***************************************************************************)
(* A model of build.py, the build script of a Perfetto extension           *)
(* repository: config loading, module discovery, the three collectors      *)
(* (SQL modules, macros, proto descriptors), the JSON writer and the       *)
(* manifest.  Text is modelled as sequences of one-character strings so    *)
(* that the path and content conversions of the script are computed, not   *)
(* assumed.  The script is run MaxRuns times on the same source tree; the  *)
(* filesystem's enumeration order (os.listdir, os.walk) is chosen afresh   *)
(* at every listing.                                                       *)
(***************************************************************************)
EXTENDS Integers, Sequences, FiniteSets, TLC

VARIABLES
  config,        \* content of config.yaml (an input), or NoFile
  srcRoot,       \* entries of SRC_DIR (an input): name, isdir, content
  protocPresent, \* whether the protoc binary can be located (an input)
  run,           \* which invocation of build() this is
  pc,            \* position inside build()
  namespace,     \* build(): namespace
  ext_name,      \* build(): ext_name
  module_names,  \* build(): module_names
  idx,           \* build(): index of module_name in module_names
  cur,           \* the list the running / last collector accumulates
  proto_files,   \* collect_proto_descriptors(): proto_files
  pi,            \* collect_proto_descriptors(): index of fn in proto_files
  tmp_path,      \* collect_proto_descriptors(): tmp_path
  exc,           \* the exception in flight inside the try statement
  error,         \* the uncaught exception that aborted build()
  tmpFiles,      \* temporary files that exist
  tmpSeq,        \* number of temporary files created so far
  invoked,       \* protoc invocations of this run, in order
  outDirs,       \* output directories that exist under MODULES_DIR
  files,         \* output files on disk: path -> JSON value
  written,       \* output paths written by this run, in order
  stdout,        \* lines printed to stdout by this run
  stderr,        \* lines printed to stderr by this run
  prevFiles      \* the output files as the previous run left them

vars == <<config, srcRoot, protocPresent, run, pc, namespace, ext_name,
          module_names, idx, cur, proto_files, pi, tmp_path, exc, error, tmpFiles,
          tmpSeq, invoked, outDirs, files, written, stdout, stderr, prevFiles>>

----------------------------------------------------------------------------
(* Bounds of the model.                                                    *)

MaxRootEntries == 2

MaxRuns == 2

----------------------------------------------------------------------------
(* Text: a str is a sequence of one-character strings.                     *)

\* ord(c): the code point Python compares characters by.
CodePoint(c) ==
  CASE c = "\n" -> 10 [] c = " " -> 32 [] c = "-" -> 45 [] c = "." -> 46
    [] c = "/" -> 47 [] c = "1" -> 49 [] c = ";" -> 59 [] c = "=" -> 61
    [] c = "A" -> 65 [] c = "B" -> 66 [] c = "C" -> 67 [] c = "E" -> 69
    [] c = "L" -> 76 [] c = "S" -> 83 [] c = "T" -> 84 [] c = "X" -> 88
    [] c = "Y" -> 89 [] c = "a" -> 97 [] c = "b" -> 98 [] c = "c" -> 99
    [] c = "d" -> 100 [] c = "e" -> 101 [] c = "f" -> 102 [] c = "j" -> 106
    [] c = "l" -> 108 [] c = "m" -> 109 [] c = "n" -> 110 [] c = "o" -> 111
    [] c = "p" -> 112 [] c = "q" -> 113 [] c = "r" -> 114 [] c = "s" -> 115
    [] c = "t" -> 116 [] c = "x" -> 120 [] c = "y" -> 121 [] c = "z" -> 122

SetMin(S) == CHOOSE x \in S : \A y \in S : x <= y

\* a <= b for Python str: lexicographic by code point, a prefix first.
StrLeq(a, b) ==
  LET n == IF Len(a) < Len(b) THEN Len(a) ELSE Len(b)
      diff == {i \in 1..n : a[i] # b[i]}
  IN IF diff = {} THEN Len(a) <= Len(b)
     ELSE CodePoint(a[SetMin(diff)]) < CodePoint(b[SetMin(diff)])

\* s.endswith(suffix)
EndsWith(s, suffix) ==
  /\ Len(s) >= Len(suffix)
  /\ SubSeq(s, Len(s) - Len(suffix) + 1, Len(s)) = suffix

\* s.replace(old, new) for one-character old and new
Replace(s, old, new) == [i \in 1..Len(s) |-> IF s[i] = old THEN new ELSE s[i]]

\* s.split(sep) for a one-character sep
RECURSIVE Split(_, _)
Split(s, sep) ==
  LET at == {i \in 1..Len(s) : s[i] = sep}
  IN IF at = {} THEN <<s>>
     ELSE <<SubSeq(s, 1, SetMin(at) - 1)>>
            \o Split(SubSeq(s, SetMin(at) + 1, Len(s)), sep)

\* sep.join(parts), sep a str
RECURSIVE Join(_, _)
Join(parts, sep) ==
  IF parts = <<>> THEN <<>>
  ELSE IF Len(parts) = 1 THEN parts[1]
  ELSE parts[1] \o sep \o Join(Tail(parts), sep)

\* Variant: drops one trailing newline only.
RStripNewlines_One(s) ==
  IF s # <<>> /\ s[Len(s)] = "\n" THEN SubSeq(s, 1, Len(s) - 1) ELSE s

\* s.rstrip('\n')
RECURSIVE RStripNewlines(_)
RStripNewlines(s) ==
  IF s # <<>> /\ s[Len(s)] = "\n" THEN RStripNewlines(SubSeq(s, 1, Len(s) - 1))
  ELSE s

\* list.sort() / sorted() are stable: an element goes after the elements
\* already placed whose key is <= its own.
InsertByKey(x, kx, s, keys) ==
  LET after == {i \in 1..Len(s) : StrLeq(keys[i], kx)}
      k == IF after = {} THEN 0
           ELSE CHOOSE i \in after : \A j \in after : j <= i
  IN SubSeq(s, 1, k) \o <<x>> \o SubSeq(s, k + 1, Len(s))

\* sorted(strs) for a sequence of str
RECURSIVE SortedStrs(_)
SortedStrs(strs) ==
  IF strs = <<>> THEN <<>>
  ELSE LET front == SortedStrs(SubSeq(strs, 1, Len(strs) - 1))
           x == strs[Len(strs)]
       IN InsertByKey(x, x, front, front)

\* modules.sort(key=lambda m: m['name'])
RECURSIVE SortByName(_)
SortByName(mods) ==
  IF mods = <<>> THEN <<>>
  ELSE LET front == SortByName(SubSeq(mods, 1, Len(mods) - 1))
           x == mods[Len(mods)]
       IN InsertByKey(x, x.name, front, [i \in 1..Len(front) |-> front[i].name])

Range(s) == {s[i] : i \in 1..Len(s)}

\* The orders in which the filesystem may enumerate the set S.
RECURSIVE Enumerations(_)
Enumerations(S) ==
  IF S = {} THEN {<<>>}
  ELSE UNION {{<<x>> \o rest : rest \in Enumerations(S \ {x})} : x \in S}

----------------------------------------------------------------------------
(* base64.b64encode(bytes).decode('ascii')                                 *)

B64Alphabet ==
  <<"A","B","C","D","E","F","G","H","I","J","K","L","M","N","O","P",
    "Q","R","S","T","U","V","W","X","Y","Z","a","b","c","d","e","f",
    "g","h","i","j","k","l","m","n","o","p","q","r","s","t","u","v",
    "w","x","y","z","0","1","2","3","4","5","6","7","8","9","+","/">>

RECURSIVE B64Encode(_)
B64Encode(bytes) ==
  IF bytes = <<>> THEN <<>>
  ELSE LET k == IF Len(bytes) >= 3 THEN 3 ELSE Len(bytes)
           b(i) == IF i <= k THEN bytes[i] ELSE 0
           n == b(1) * 65536 + b(2) * 256 + b(3)
           c1 == B64Alphabet[(n \div 262144) + 1]
           c2 == B64Alphabet[((n \div 4096) % 64) + 1]
           c3 == IF k >= 2 THEN B64Alphabet[((n \div 64) % 64) + 1] ELSE "="
           c4 == IF k >= 3 THEN B64Alphabet[(n % 64) + 1] ELSE "="
       IN <<c1, c2, c3, c4>> \o B64Encode(SubSeq(bytes, k + 1, Len(bytes)))

----------------------------------------------------------------------------
(* The inputs: config.yaml, the source tree under SRC_DIR, and protoc.     *)

\* open() raises FileNotFoundError
NoFile == [exists |-> FALSE]

\* os.path.isdir() is False
NoDir == [isdir |-> FALSE, entries |-> {}]

\* A directory that exists, with its entries.
Dir(entries) == [isdir |-> TRUE, entries |-> entries]

ConfigPool ==
  { NoFile,
    [exists |-> TRUE, namespace |-> <<"a","p","p">>],
    [exists |-> TRUE, namespace |-> <<"a","p","p">>, name |-> <<"E","x","t">>] }

\* A file of a sql_modules/ tree: its path below the tree as a sequence of
\* components, and its text.
SqlFile(path, content) == [path |-> path, content |-> content]

\* An entry of a macros/ dir: its name and what yaml/json parses it to.
MacroFile(fn, data) == [fn |-> fn, data |-> data]

\* An entry of a proto_descriptors/ dir: its name, what happens when protoc
\* (if present) compiles it, and the bytes protoc writes on success.
\*   "ok"      protoc exits 0 and the temp file holds desc
\*   "exit1"   protoc exits non-zero (CalledProcessError)
\*   "gone"    protoc exits 0 but the temp file no longer exists
\*   "readerr" protoc exits 0 and reading the temp file raises OSError
ProtoFile(fn, outcome, desc) == [fn |-> fn, outcome |-> outcome, desc |-> desc]

Module(sql, macros, protos) == [sql |-> sql, macros |-> macros, protos |-> protos]

\* No feature directory at all.
BareModule == Module(NoDir, NoDir, NoDir)

\* The three feature directories exist and hold nothing the collectors take.
HollowModule ==
  Module(Dir({}),
         Dir({MacroFile(<<"r",".","t","x","t">>, [id |-> <<"x">>])}),
         Dir({ProtoFile(<<"n",".","m","d">>, "ok", <<>>)}))

\* perf/sql_modules/q.sql holding "SELECT 1;\n\n"
PerfModule ==
  Module(Dir({SqlFile(<<<<"q",".","s","q","l">>>>,
                      <<"S","E","L","E","C","T"," ","1",";","\n","\n">>)}),
         NoDir, NoDir)

\* a/b.c.sql and a.b/c.sql (one dotted name, two files), common.sql with
\* an inner blank line, and a/sql, which is not a .sql file.
SqlModule ==
  Module(Dir({SqlFile(<<<<"a">>, <<"b",".","c",".","s","q","l">>>>, <<"X","\n">>),
              SqlFile(<<<<"a",".","b">>, <<"c",".","s","q","l">>>>, <<"Y">>),
              SqlFile(<<<<"a">>, <<"s","q","l">>>>, <<"-">>),
              SqlFile(<<<<"c","o","m","m","o","n",".","s","q","l">>>>,
                      <<"S","\n","\n","T","\n">>)}),
         NoDir, NoDir)

\* foo.bar.sql beside foo/bar.sql (one dotted name, the top directory is
\* walked first), two macro files and three entries of proto_descriptors/.
FullModule ==
  Module(Dir({SqlFile(<<<<"f","o","o">>, <<"b","a","r",".","s","q","l">>>>, <<"X">>),
              SqlFile(<<<<"f","o","o",".","b","a","r",".","s","q","l">>>>, <<"Y">>)}),
         Dir({MacroFile(<<"m",".","y","a","m","l">>,
                        [id |-> <<"d","e","f">>, name |-> <<"D">>,
                         run |-> <<[id |-> <<"c","1">>, args |-> <<<<"x">>>>],
                                   [id |-> <<"c","2">>]>>]),
              MacroFile(<<"a",".","j","s","o","n">>,
                        [id |-> <<"a","b">>, name |-> <<"A">>])}),
         Dir({ProtoFile(<<"p",".","p","r","o","t","o">>, "ok", <<10, 3, 255>>),
              ProtoFile(<<"b",".","p","r","o","t","o">>, "ok", <<10>>),
              ProtoFile(<<"p","r","o","t","o">>, "ok", <<>>)}))

\* A macro file whose second command has no id.
NoIdModule ==
  Module(Dir({SqlFile(<<<<"z",".","s","q","l">>>>, <<"1","\n">>)}),
         Dir({MacroFile(<<"k",".","y","a","m","l">>,
                        [id |-> <<"k">>, name |-> <<"K">>,
                         run |-> <<[id |-> <<"c","1">>],
                                   [args |-> <<<<"x">>>>],
                                   [id |-> <<"c","3">>]>>])}),
         Dir({ProtoFile(<<"p",".","p","r","o","t","o">>, "ok", <<10, 3>>)}))

\* The second of three .proto files does not compile.
BadProtoModule ==
  Module(NoDir, NoDir,
         Dir({ProtoFile(<<"a",".","p","r","o","t","o">>, "ok", <<8, 1>>),
              ProtoFile(<<"b",".","p","r","o","t","o">>, "exit1", <<>>),
              ProtoFile(<<"c",".","p","r","o","t","o">>, "ok", <<9>>)}))

\* The temp file is gone after the first compile and unreadable after the second.
BadTempModule ==
  Module(NoDir, NoDir,
         Dir({ProtoFile(<<"a",".","p","r","o","t","o">>, "gone", <<>>),
              ProtoFile(<<"b",".","p","r","o","t","o">>, "readerr", <<7>>)}))

\* A macro file without a name.
NoNameModule ==
  Module(NoDir,
         Dir({MacroFile(<<"m",".","j","s","o","n">>,
                        [id |-> <<"m">>, run |-> <<[id |-> <<"c">>]>>])}),
         NoDir)

ModulePool == {BareModule, HollowModule, PerfModule, SqlModule, FullModule,
               NoIdModule, BadProtoModule, BadTempModule, NoNameModule}

DirNames == {<<"p","e","r","f">>, <<"a","l","f","a">>, <<"z","e","t","a">>}

FileNames == {<<"n","o","t","e","s">>}

\* An entry of SRC_DIR: a directory holding a module's sources, or a file.
DirEntry(name, content) == [name |-> name, isdir |-> TRUE, content |-> content]

FileEntry(name) == [name |-> name, isdir |-> FALSE, content |-> BareModule]

\* The listings of SRC_DIR with directories D and files F.
SrcRootsOf(D, F) ==
  {{DirEntry(n, f[n]) : n \in D} \cup {FileEntry(n) : n \in F} :
     f \in [D -> ModulePool]}

\* The listings of SRC_DIR: names are unique within a directory.
SrcRoots ==
  UNION {SrcRootsOf(DF[1], DF[2]) :
           DF \in {X \in (SUBSET DirNames) \X (SUBSET FileNames) :
                     Cardinality(X[1]) + Cardinality(X[2]) <= MaxRootEntries}}

----------------------------------------------------------------------------
(* What a call gives back: a value, or an exception.                       *)

Return(value) == [raised |-> FALSE, value |-> value, error |-> "none"]

Raise(e) == [raised |-> TRUE, value |-> <<>>, error |-> e]

----------------------------------------------------------------------------
(* collect_sql_modules                                                     *)

\* os.sep
Sep == "/"

IsPrefix(d, p) == Len(d) <= Len(p) /\ SubSeq(p, 1, Len(d)) = d

\* The subdirectories of directory d of the tree.
SubDirs(tree, d) ==
  {f.path[Len(d) + 1] : f \in {g \in tree : /\ Len(g.path) > Len(d) + 1
                                            /\ IsPrefix(d, g.path)}}

\* The files of directory d of the tree.
FilesIn(tree, d) ==
  {f.path[Len(d) + 1] : f \in {g \in tree : /\ Len(g.path) = Len(d) + 1
                                            /\ IsPrefix(d, g.path)}}

\* os.walk(sql_dir), top-down from directory d: every sequence of
\* (dirpath, filenames) it may yield.  Each directory is scanned in an
\* order the filesystem chooses; its subdirectories are walked in that order.
RECURSIVE Walks(_, _), WalkSubDirs(_, _, _)
Walks(tree, d) ==
  UNION {
    LET dirnames == SelectSeq(e, LAMBDA n : n \in SubDirs(tree, d))
        filenames == SelectSeq(e, LAMBDA n : n \in FilesIn(tree, d))
    IN {<<[dirpath |-> d, filenames |-> filenames]>> \o rest :
          rest \in WalkSubDirs(tree, d, dirnames)}
    : e \in Enumerations(SubDirs(tree, d) \cup FilesIn(tree, d))}

WalkSubDirs(tree, d, dirnames) ==
  IF dirnames = <<>> THEN {<<>>}
  ELSE {a \o b : a \in Walks(tree, d \o <<Head(dirnames)>>),
                 b \in WalkSubDirs(tree, d, Tail(dirnames))}

\* open(os.path.join(dirpath, fn)).read()
ReadSqlFile(tree, dirpath, fn) ==
  (CHOOSE f \in tree : f.path = dirpath \o <<fn>>).content

\* Variant: the relative path is not split at its separators.
SqlName_KeepsSeparators(ns, dirpath, fn) ==
  LET rel == Join(dirpath \o <<fn>>, <<Sep>>)
  IN ns \o <<".">> \o SubSeq(rel, 1, Len(rel) - 4)

\* Lines 40-46: the dotted module name of file fn of directory dirpath.
SqlName(ns, dirpath, fn) ==
  LET rel == Join(dirpath \o <<fn>>, <<Sep>>)
      parts == Split(Replace(rel, Sep, "/"), "/")
      last == parts[Len(parts)]
      stripped == [parts EXCEPT ![Len(parts)] = SubSeq(last, 1, Len(last) - 4)]
      suffix == Join(stripped, <<".">>)
  IN ns \o <<".">> \o suffix

\* Lines 37-49: the entries one yielded directory appends.
SqlOfDir(tree, ns, y) ==
  LET fns == SelectSeq(SortedStrs(y.filenames),
                       LAMBDA fn : EndsWith(fn, <<".","s","q","l">>))
  IN [i \in 1..Len(fns) |->
        [name |-> SqlName(ns, y.dirpath, fns[i]),
         sql |-> RStripNewlines(ReadSqlFile(tree, y.dirpath, fns[i]))]]

RECURSIVE SqlOfWalk(_, _, _)
SqlOfWalk(tree, ns, walk) ==
  IF walk = <<>> THEN <<>>
  ELSE SqlOfDir(tree, ns, Head(walk)) \o SqlOfWalk(tree, ns, Tail(walk))

\* collect_sql_modules(sql_dir, namespace), os.walk yielding walk.
collect_sql_modules(sql_dir, ns, walk) ==
  IF ~sql_dir.isdir THEN <<>>
  ELSE SortByName(SqlOfWalk(sql_dir.entries, ns, walk))

----------------------------------------------------------------------------
(* collect_macros                                                          *)

\* load_macro_file(os.path.join(macros_dir, fn))
load_macro_file(macros_dir, fn) ==
  (CHOOSE e \in macros_dir.entries : e.fn = fn).data

\* data.get('run', [])
RunOf(data) == IF "run" \in DOMAIN data THEN data.run ELSE <<>>

\* {'id': cmd['id'], 'args': cmd.get('args', [])}
NormalizeCmd(cmd) ==
  [id |-> cmd.id, args |-> IF "args" \in DOMAIN cmd THEN cmd.args ELSE <<>>]

\* Variant: a command without id is left out instead of raising.
MacroOf_DropsCommands(data) ==
  LET kept == SelectSeq(RunOf(data), LAMBDA cmd : "id" \in DOMAIN cmd)
  IN IF "id" \notin DOMAIN data \/ "name" \notin DOMAIN data
       THEN Raise("KeyError")
     ELSE Return([id |-> data.id, name |-> data.name,
                  run |-> [i \in 1..Len(kept) |-> NormalizeCmd(kept[i])]])

\* Lines 72-79: the macro built from one loaded file; a missing key raises.
MacroOf(data) ==
  IF \E i \in 1..Len(RunOf(data)) : "id" \notin DOMAIN RunOf(data)[i]
    THEN Raise("KeyError")
  ELSE IF "id" \notin DOMAIN data \/ "name" \notin DOMAIN data
    THEN Raise("KeyError")
  ELSE Return([id |-> data.id, name |-> data.name,
               run |-> [i \in 1..Len(RunOf(data)) |-> NormalizeCmd(RunOf(data)[i])]])

RECURSIVE MacroLoop(_, _, _)
MacroLoop(macros_dir, fns, macros) ==
  IF fns = <<>> THEN Return(macros)
  ELSE LET m == MacroOf(load_macro_file(macros_dir, Head(fns)))
       IN IF m.raised THEN m
          ELSE MacroLoop(macros_dir, Tail(fns), Append(macros, m.value))

\* collect_macros(macros_dir), os.listdir returning listing.
collect_macros(macros_dir, listing) ==
  IF ~macros_dir.isdir THEN Return(<<>>)
  ELSE MacroLoop(macros_dir,
                 SelectSeq(SortedStrs(listing),
                           LAMBDA fn : \/ EndsWith(fn, <<".","y","a","m","l">>)
                                       \/ EndsWith(fn, <<".","j","s","o","n">>)),
                 <<>>)

----------------------------------------------------------------------------
(* write_json and the output paths                                         *)

\* os.path.join(MODULES_DIR, module_name, feature)
OutPath(module_name, feature) == [dir |-> module_name, file |-> feature]

\* os.path.join(ROOT, 'manifest')
ManifestPath == [dir |-> <<>>, file |-> "manifest"]

\* write_json(path, data): the file is created or overwritten.
write_json(fs, path, data) ==
  [p \in DOMAIN fs \cup {path} |-> IF p = path THEN data ELSE fs[p]]

\* No output file yet.
NoFiles == [p \in {} |-> <<>>]

----------------------------------------------------------------------------
(* collect_proto_descriptors, step by step                                 *)

\* os.path.join(SRC_DIR, module_name): the module's source directory.
SrcModuleDir(module_name) ==
  (CHOOSE e \in srcRoot : e.name = module_name).content

\* The module build() is processing.
CurModuleName == module_names[idx]

CurProtoDir == SrcModuleDir(CurModuleName).protos

\* The entry of proto_dir that fn names.
CurProto == CHOOSE e \in CurProtoDir.entries : e.fn = proto_files[pi]

\* subprocess.check_call(['protoc', ...]) on one file: "notfound" when the
\* binary cannot be located, else what the compiler does with the file.
CheckCall(present, entry) == IF ~present THEN "notfound" ELSE entry.outcome

\* Variant: a bare except clause.
Caught_Everything(e) == e # "none"

\* Variant: the except clause names another exception.
Caught_Nothing(e) == FALSE

\* Line 106: the exceptions the except clause handles.
Caught(e) == e = "FileNotFoundError"

\* Where the try statement goes after a step that left exception e (or none).
AfterTry(e, continue) ==
  IF e = "none" THEN continue
  ELSE IF Caught(e) THEN "proto_except"
  ELSE "proto_finally"

\* Variant: the temp file is left behind.
Unlink_Forgotten(existing, path) == existing

\* Lines 109-110: if os.path.exists(tmp_path): os.unlink(tmp_path)
Unlink(existing, path) == IF path \in existing THEN existing \ {path} ELSE existing

\* Lines 85-91: list the directory, keep the .proto files.
ProtoBegin ==
  /\ pc = "protos"
  /\ \E listing \in Enumerations({e.fn : e \in CurProtoDir.entries}) :
       LET selected == IF ~CurProtoDir.isdir THEN <<>>
                       ELSE SelectSeq(SortedStrs(listing),
                              LAMBDA fn : EndsWith(fn, <<".","p","r","o","t","o">>))
       IN /\ proto_files' = selected
          /\ cur' = <<>>
          /\ IF selected = <<>>
               THEN pi' = 0 /\ pc' = "write_protos"
               ELSE pi' = 1 /\ pc' = "proto_tmp"
  /\ UNCHANGED <<config, srcRoot, protocPresent, run, namespace, ext_name,
                 module_names, idx, tmp_path, exc, error, tmpFiles, tmpSeq,
                 invoked, outDirs, files, written, stdout, stderr, prevFiles>>

\* Lines 94-95: tempfile.NamedTemporaryFile(suffix='.desc', delete=False)
ProtoMkTemp ==
  /\ pc = "proto_tmp"
  /\ tmpSeq' = tmpSeq + 1
  /\ tmp_path' = tmpSeq + 1
  /\ tmpFiles' = tmpFiles \cup {tmpSeq + 1}
  /\ pc' = "proto_call"
  /\ UNCHANGED <<config, srcRoot, protocPresent, run, namespace, ext_name,
                 module_names, idx, cur, proto_files, pi, exc, error,
                 invoked, outDirs, files, written, stdout, stderr, prevFiles>>

\* Lines 97-102: subprocess.check_call
ProtoCall ==
  /\ pc = "proto_call"
  /\ LET result == CheckCall(protocPresent, CurProto)
     IN /\ invoked' = Append(invoked, [module |-> CurModuleName,
                                       fn |-> proto_files[pi],
                                       tmp |-> tmp_path,
                                       result |-> result])
        /\ exc' = CASE result = "notfound" -> "FileNotFoundError"
                    [] result = "exit1" -> "CalledProcessError"
                    [] OTHER -> "none"
        /\ pc' = AfterTry(exc', "proto_read")
        /\ tmpFiles' = IF result = "gone" THEN tmpFiles \ {tmp_path} ELSE tmpFiles
  /\ UNCHANGED <<config, srcRoot, protocPresent, run, namespace, ext_name,
                 module_names, idx, cur, proto_files, pi, tmp_path, error,
                 tmpSeq, outDirs, files, written, stdout, stderr, prevFiles>>

\* Lines 103-105: read the temp file, encode, append
ProtoRead ==
  /\ pc = "proto_read"
  /\ IF tmp_path \notin tmpFiles
       THEN exc' = "FileNotFoundError" /\ cur' = cur
     ELSE IF CurProto.outcome = "readerr"
       THEN exc' = "OSError" /\ cur' = cur
     ELSE exc' = "none" /\ cur' = Append(cur, B64Encode(CurProto.desc))
  /\ pc' = AfterTry(exc', "proto_finally")
  /\ UNCHANGED <<config, srcRoot, protocPresent, run, namespace, ext_name,
                 module_names, idx, proto_files, pi, tmp_path, error, tmpFiles,
                 tmpSeq, invoked, outDirs, files, written, stdout, stderr,
                 prevFiles>>

\* Variant: after the first warning the remaining files are skipped.
ProtoExcept_SkipsRest ==
  /\ pc = "proto_except"
  /\ stderr' = Append(stderr, [text |-> "Warning: protoc not found, skipping",
                               fn |-> proto_files[pi]])
  /\ exc' = "none"
  /\ pi' = Len(proto_files)
  /\ pc' = "proto_finally"
  /\ UNCHANGED <<config, srcRoot, protocPresent, run, namespace, ext_name,
                 module_names, idx, cur, proto_files, tmp_path, error,
                 tmpFiles, tmpSeq, invoked, outDirs, files, written, stdout,
                 prevFiles>>

\* Lines 106-107: except FileNotFoundError
ProtoExcept ==
  /\ pc = "proto_except"
  /\ stderr' = Append(stderr, [text |-> "Warning: protoc not found, skipping",
                               fn |-> proto_files[pi]])
  /\ exc' = "none"
  /\ pc' = "proto_finally"
  /\ UNCHANGED <<config, srcRoot, protocPresent, run, namespace, ext_name,
                 module_names, idx, cur, proto_files, pi, tmp_path, error,
                 tmpFiles, tmpSeq, invoked, outDirs, files, written, stdout,
                 prevFiles>>

\* Lines 108-110, then the next file, the return, or the exception leaving.
ProtoFinally ==
  /\ pc = "proto_finally"
  /\ tmpFiles' = Unlink(tmpFiles, tmp_path)
  /\ IF exc # "none"
       THEN pc' = "aborted" /\ error' = exc /\ pi' = pi
     ELSE IF pi < Len(proto_files)
       THEN pc' = "proto_tmp" /\ error' = error /\ pi' = pi + 1
     ELSE pc' = "write_protos" /\ error' = error /\ pi' = pi
  /\ exc' = "none"
  /\ UNCHANGED <<config, srcRoot, protocPresent, run, namespace, ext_name,
                 module_names, idx, cur, proto_files, tmp_path, tmpSeq,
                 invoked, outDirs, files, written, stdout, stderr, prevFiles>>

----------------------------------------------------------------------------
(* build()                                                                 *)

Init ==
  /\ config \in ConfigPool
  /\ srcRoot \in SrcRoots
  /\ protocPresent \in BOOLEAN
  /\ run = 1
  /\ pc = "load_config"
  /\ namespace = <<>>
  /\ ext_name = <<>>
  /\ module_names = <<>>
  /\ idx = 0
  /\ cur = <<>>
  /\ proto_files = <<>>
  /\ pi = 0
  /\ tmp_path = 0
  /\ exc = "none"
  /\ error = "none"
  /\ tmpFiles = {}
  /\ tmpSeq = 0
  /\ invoked = <<>>
  /\ outDirs = {}
  /\ files = NoFiles
  /\ written = <<>>
  /\ stdout = <<>>
  /\ stderr = <<>>
  /\ prevFiles = NoFiles

\* Lines 122-124: load_config() and the two required keys.
LoadConfig ==
  /\ pc = "load_config"
  /\ IF ~config.exists
       THEN /\ pc' = "aborted" /\ error' = "FileNotFoundError"
            /\ UNCHANGED <<namespace, ext_name>>
     ELSE IF "name" \notin DOMAIN config
       THEN /\ pc' = "aborted" /\ error' = "KeyError"
            /\ namespace' = config.namespace
            /\ UNCHANGED ext_name
     ELSE /\ pc' = "list_modules" /\ error' = error
          /\ namespace' = config.namespace
          /\ ext_name' = config.name
  /\ UNCHANGED <<config, srcRoot, protocPresent, run, module_names, idx, cur,
                 proto_files, pi, tmp_path, exc, tmpFiles, tmpSeq, invoked,
                 outDirs, files, written, stdout, stderr, prevFiles>>

\* Variant: the entries are not filtered by os.path.isdir.
SortedModuleNames_AllEntries(listing) ==
  SortedStrs([i \in 1..Len(listing) |-> listing[i].name])

\* Lines 126-129: the sorted names of the directories among os.listdir(SRC_DIR).
SortedModuleNames(listing) ==
  SortedStrs([i \in 1..Len(SelectSeq(listing, LAMBDA e : e.isdir)) |->
                SelectSeq(listing, LAMBDA e : e.isdir)[i].name])

ListModules ==
  /\ pc = "list_modules"
  /\ \E listing \in Enumerations(srcRoot) :
       /\ module_names' = SortedModuleNames(listing)
       /\ IF SortedModuleNames(listing) = <<>>
            THEN idx' = 0 /\ pc' = "manifest"
            ELSE idx' = 1 /\ pc' = "sql"
  /\ UNCHANGED <<config, srcRoot, protocPresent, run, namespace, ext_name, cur,
                 proto_files, pi, tmp_path, exc, error, tmpFiles, tmpSeq,
                 invoked, outDirs, files, written, stdout, stderr, prevFiles>>

\* Lines 132-138: os.makedirs(out_module_dir), collect_sql_modules(...)
CollectSql ==
  /\ pc = "sql"
  /\ outDirs' = outDirs \cup {CurModuleName}
  /\ LET sql_dir == SrcModuleDir(CurModuleName).sql
     IN \E walk \in (IF sql_dir.isdir THEN Walks(sql_dir.entries, <<>>)
                     ELSE {<<>>}) :
          cur' = collect_sql_modules(sql_dir, namespace, walk)
  /\ pc' = "write_sql"
  /\ UNCHANGED <<config, srcRoot, protocPresent, run, namespace, ext_name,
                 module_names, idx, proto_files, pi, tmp_path, exc, error,
                 tmpFiles, tmpSeq, invoked, files, written, stdout, stderr,
                 prevFiles>>

\* Lines 139-142
WriteSql ==
  /\ pc = "write_sql"
  /\ files' = write_json(files, OutPath(CurModuleName, "sql_modules"),
                         [sql_modules |-> cur])
  /\ written' = Append(written, OutPath(CurModuleName, "sql_modules"))
  /\ pc' = "macros"
  /\ UNCHANGED <<config, srcRoot, protocPresent, run, namespace, ext_name,
                 module_names, idx, cur, proto_files, pi, tmp_path, exc, error,
                 tmpFiles, tmpSeq, invoked, outDirs, stdout, stderr, prevFiles>>

\* Lines 145-146: collect_macros(...); an exception leaves build().
CollectMacros ==
  /\ pc = "macros"
  /\ LET macros_dir == SrcModuleDir(CurModuleName).macros
     IN \E listing \in Enumerations({e.fn : e \in macros_dir.entries}) :
          LET r == collect_macros(macros_dir, listing)
          IN IF r.raised
               THEN pc' = "aborted" /\ error' = r.error /\ cur' = <<>>
               ELSE pc' = "write_macros" /\ error' = error /\ cur' = r.value
  /\ UNCHANGED <<config, srcRoot, protocPresent, run, namespace, ext_name,
                 module_names, idx, proto_files, pi, tmp_path, exc, tmpFiles,
                 tmpSeq, invoked, outDirs, files, written, stdout, stderr,
                 prevFiles>>

\* Lines 147-150
WriteMacros ==
  /\ pc = "write_macros"
  /\ files' = write_json(files, OutPath(CurModuleName, "macros"),
                         [macros |-> cur])
  /\ written' = Append(written, OutPath(CurModuleName, "macros"))
  /\ pc' = "protos"
  /\ UNCHANGED <<config, srcRoot, protocPresent, run, namespace, ext_name,
                 module_names, idx, cur, proto_files, pi, tmp_path, exc, error,
                 tmpFiles, tmpSeq, invoked, outDirs, stdout, stderr, prevFiles>>

\* Variant: an empty descriptor list is not written.
WriteProtos_SkipsEmpty ==
  /\ pc = "write_protos"
  /\ IF cur = <<>>
       THEN UNCHANGED <<files, written>>
       ELSE /\ files' = write_json(files, OutPath(CurModuleName, "proto_descriptors"),
                                   [proto_descriptors |-> cur])
            /\ written' = Append(written, OutPath(CurModuleName, "proto_descriptors"))
  /\ IF idx < Len(module_names)
       THEN idx' = idx + 1 /\ pc' = "sql"
       ELSE idx' = idx /\ pc' = "manifest"
  /\ UNCHANGED <<config, srcRoot, protocPresent, run, namespace, ext_name,
                 module_names, cur, proto_files, pi, tmp_path, exc, error,
                 tmpFiles, tmpSeq, invoked, outDirs, stdout, stderr, prevFiles>>

\* Lines 155-158, then the next module or the end of the loop.
WriteProtos ==
  /\ pc = "write_protos"
  /\ files' = write_json(files, OutPath(CurModuleName, "proto_descriptors"),
                         [proto_descriptors |-> cur])
  /\ written' = Append(written, OutPath(CurModuleName, "proto_descriptors"))
  /\ IF idx < Len(module_names)
       THEN idx' = idx + 1 /\ pc' = "sql"
       ELSE idx' = idx /\ pc' = "manifest"
  /\ UNCHANGED <<config, srcRoot, protocPresent, run, namespace, ext_name,
                 module_names, cur, proto_files, pi, tmp_path, exc, error,
                 tmpFiles, tmpSeq, invoked, outDirs, stdout, stderr, prevFiles>>

\* Lines 161-172
Manifest ==
  [name |-> ext_name,
   namespace |-> namespace,
   features |-> <<[name |-> "macros"], [name |-> "sql_modules"],
                  [name |-> "proto_descriptors"]>>,
   modules |-> [i \in 1..Len(module_names) |-> [name |-> module_names[i]]]]

\* Line 173
WriteManifest ==
  /\ pc = "manifest"
  /\ files' = write_json(files, ManifestPath, Manifest)
  /\ written' = Append(written, ManifestPath)
  /\ pc' = "summary"
  /\ UNCHANGED <<config, srcRoot, protocPresent, run, namespace, ext_name,
                 module_names, idx, cur, proto_files, pi, tmp_path, exc, error,
                 tmpFiles, tmpSeq, invoked, outDirs, stdout, stderr, prevFiles>>

\* Line 175
PrintSummary ==
  /\ pc = "summary"
  /\ stdout' = Append(stdout, [text |-> "Built {} modules: {}",
                               count |-> Len(module_names),
                               names |-> Join(module_names, <<",", " ">>)])
  /\ pc' = "done"
  /\ UNCHANGED <<config, srcRoot, protocPresent, run, namespace, ext_name,
                 module_names, idx, cur, proto_files, pi, tmp_path, exc, error,
                 tmpFiles, tmpSeq, invoked, outDirs, files, written, stderr,
                 prevFiles>>

\* Lines 178-179: the script is invoked again on the same inputs.  The
\* process starts afresh; what the last one left on disk stays.
Rerun ==
  /\ pc \in {"done", "aborted"}
  /\ run < MaxRuns
  /\ run' = run + 1
  /\ prevFiles' = files
  /\ pc' = "load_config"
  /\ namespace' = <<>>
  /\ ext_name' = <<>>
  /\ module_names' = <<>>
  /\ idx' = 0
  /\ cur' = <<>>
  /\ proto_files' = <<>>
  /\ pi' = 0
  /\ tmp_path' = 0
  /\ exc' = "none"
  /\ error' = "none"
  /\ invoked' = <<>>
  /\ written' = <<>>
  /\ stdout' = <<>>
  /\ stderr' = <<>>
  /\ UNCHANGED <<config, srcRoot, protocPresent, tmpFiles, tmpSeq, outDirs, files>>

Next ==
  \/ LoadConfig
  \/ ListModules
  \/ CollectSql
  \/ WriteSql
  \/ CollectMacros
  \/ WriteMacros
  \/ ProtoBegin
  \/ ProtoMkTemp
  \/ ProtoCall
  \/ ProtoRead
  \/ ProtoExcept
  \/ ProtoFinally
  \/ WriteProtos
  \/ WriteManifest
  \/ PrintSummary
  \/ Rerun

Spec == Init /\ [][Next]_vars

----------------------------------------------------------------------------
(* What the properties below speak about, stated over the inputs.          *)

\* The module directories of the source root.
ModuleDirs == {e \in srcRoot : e.isdir}

Written == Range(written)

DotSql == <<".","s","q","l">>

DotProto == <<".","p","r","o","t","o">>

\* The .sql files below a module's SQL root.
SqlFilesOf(m) ==
  IF m.sql.isdir THEN {f \in m.sql.entries : EndsWith(f.path[Len(f.path)], DotSql)}
  ELSE {}

\* The macro definition files of a module.
MacroFilesOf(m) ==
  IF m.macros.isdir
    THEN {e \in m.macros.entries : \/ EndsWith(e.fn, <<".","y","a","m","l">>)
                                   \/ EndsWith(e.fn, <<".","j","s","o","n">>)}
  ELSE {}

\* The .proto files of a module.
ProtoFilesOf(m) ==
  IF m.protos.isdir THEN {e \in m.protos.entries : EndsWith(e.fn, DotProto)}
  ELSE {}

\* The strictly ascending sequence of the strings of S.
Ascending(S) ==
  CHOOSE s \in Enumerations(S) :
    \A i, j \in 1..Len(s) : i < j => (StrLeq(s[i], s[j]) /\ s[i] # s[j])

\* The order build() writes its outputs in.
RECURSIVE ModuleOutputs(_)
ModuleOutputs(names) ==
  IF names = <<>> THEN <<>>
  ELSE <<OutPath(Head(names), "sql_modules"), OutPath(Head(names), "macros"),
         OutPath(Head(names), "proto_descriptors")>> \o ModuleOutputs(Tail(names))

OutputOrder ==
  ModuleOutputs(Ascending({e.name : e \in ModuleDirs})) \o <<ManifestPath>>

InProtoCollector == pc \in {"proto_tmp", "proto_call", "proto_read",
                            "proto_except", "proto_finally"}

----------------------------------------------------------------------------
(* C1: running build() twice on the same config, source tree and protoc    *)
(* behaviour leaves byte-identical output files, whatever order the        *)
(* filesystem enumerates directories in: when the second run has           *)
(* completed, every output file holds what the first run left in it.       *)
C1_RerunIsByteIdentical ==
  (run > 1 /\ pc = "done") => files = prevFiles

(* C2: with protoc absent, every proto_descriptors file written is the     *)
(* empty list, the proto collector never aborts the build, and a completed *)
(* build has written all three files of every module and the manifest,     *)
(* printed the summary line, and printed one warning per .proto file.      *)
C2_AbsentProtocIsSkipped ==
  ~protocPresent =>
    /\ \A p \in Written : p.file = "proto_descriptors" =>
         files[p] = [proto_descriptors |-> <<>>]
    /\ pc = "aborted" =>
         \/ idx = 0
         \/ OutPath(CurModuleName, "macros") \notin Written
    /\ pc = "done" =>
         /\ \A d \in ModuleDirs :
              {OutPath(d.name, "sql_modules"), OutPath(d.name, "macros"),
               OutPath(d.name, "proto_descriptors")} \subseteq Written
         /\ ManifestPath \in Written
         /\ Len(stdout) = 1
         /\ Len(stderr) =
              Cardinality(UNION {{<<d.name, e.fn>> : e \in ProtoFilesOf(d.content)}
                                   : d \in ModuleDirs})
         /\ \A d \in ModuleDirs : \A e \in ProtoFilesOf(d.content) :
              \E i \in 1..Len(stderr) : stderr[i].fn = e.fn

C2_Witness ==
  /\ ~protocPresent
  /\ pc = "done"
  /\ Len(stderr) >= 3
  /\ Cardinality(ModuleDirs) >= 2

(* C3: a temporary descriptor file exists only between its creation and    *)
(* the end of the try statement of its own .proto file: at most one        *)
(* exists, it is the current tmp_path, and none exists when the collector  *)
(* starts the next file, has returned, or build() has ended or aborted.    *)
C3_TempFilesAreScoped ==
  /\ tmpFiles \subseteq {tmp_path}
  /\ pc \notin {"proto_call", "proto_read", "proto_except", "proto_finally"}
       => tmpFiles = {}

C3_Witness ==
  /\ pc = "aborted"
  /\ error \in {"CalledProcessError", "OSError"}
  /\ tmpSeq >= 2
  /\ tmpFiles = {}
  /\ \E i \in 1..Len(invoked) : invoked[i].result = "gone"

(* C4: once protoc has exited non-zero for a .proto file, that call is the *)
(* last protoc call of the run, the build aborts with the process error,   *)
(* and the run writes neither that module's proto_descriptors file, nor    *)
(* any file of a later module, nor the manifest, and prints no summary.    *)
C4_NonZeroExitAbortsBuild ==
  (\E i \in 1..Len(invoked) : invoked[i].result = "exit1") =>
    LET last == invoked[Len(invoked)]
    IN /\ last.result = "exit1"
       /\ \A i \in 1..(Len(invoked) - 1) : invoked[i].result # "exit1"
       /\ pc \in {"proto_finally", "aborted"}
       /\ pc = "aborted" => error = "CalledProcessError"
       /\ OutPath(last.module, "proto_descriptors") \notin Written
       /\ ManifestPath \notin Written
       /\ \A p \in Written : StrLeq(p.dir, last.module)
       /\ stdout = <<>>

C4_Witness ==
  /\ pc = "aborted"
  /\ error = "CalledProcessError"
  /\ idx < Len(module_names)
  /\ pi < Len(proto_files)

HasCommandWithoutId(m) ==
  \E e \in MacroFilesOf(m) :
    /\ "run" \in DOMAIN e.data
    /\ \E i \in 1..Len(e.data.run) : "id" \notin DOMAIN e.data.run[i]

(* C5: a module with a macro definition file in which a command of the run *)
(* list has no id never gets past collect_macros: its macros file and the  *)
(* manifest are not written in this run, the build does not complete, and  *)
(* the abort at that module is a KeyError.                                 *)
C5_CommandWithoutIdFails ==
  \A d \in ModuleDirs : HasCommandWithoutId(d.content) =>
    /\ OutPath(d.name, "macros") \notin Written
    /\ ManifestPath \notin Written
    /\ pc \notin {"manifest", "summary", "done"}
    /\ (idx > 0 /\ CurModuleName = d.name) =>
         /\ pc \in {"sql", "write_sql", "macros", "aborted"}
         /\ pc = "aborted" => error = "KeyError"

C5_Witness ==
  /\ pc = "aborted"
  /\ error = "KeyError"
  /\ idx > 0
  /\ HasCommandWithoutId(SrcModuleDir(CurModuleName))
  /\ OutPath(CurModuleName, "sql_modules") \in Written

ContributesNothing(m) ==
  SqlFilesOf(m) = {} /\ MacroFilesOf(m) = {} /\ ProtoFilesOf(m) = {}

(* C6: after a successful build the manifest's modules list is exactly the *)
(* immediate subdirectories of the source root, strictly ascending; files  *)
(* of the source root are not listed; a module contributing nothing has    *)
(* its three output files, each an empty list.                             *)
C6_ManifestListsModules ==
  pc = "done" =>
    LET mods == files[ManifestPath].modules
    IN /\ {mods[i].name : i \in 1..Len(mods)} = {e.name : e \in ModuleDirs}
       /\ \A i, j \in 1..Len(mods) :
            i < j => (StrLeq(mods[i].name, mods[j].name)
                        /\ mods[i].name # mods[j].name)
       /\ \A d \in ModuleDirs : ContributesNothing(d.content) =>
            /\ OutPath(d.name, "sql_modules") \in Written
            /\ OutPath(d.name, "macros") \in Written
            /\ OutPath(d.name, "proto_descriptors") \in Written
            /\ files[OutPath(d.name, "sql_modules")] = [sql_modules |-> <<>>]
            /\ files[OutPath(d.name, "macros")] = [macros |-> <<>>]
            /\ files[OutPath(d.name, "proto_descriptors")] =
                 [proto_descriptors |-> <<>>]

C6_Witness ==
  /\ pc = "done"
  /\ \E e \in srcRoot : ~e.isdir
  /\ \E d \in ModuleDirs : ContributesNothing(d.content) /\ d.content.sql.isdir

DottedName(ns, f) ==
  LET rel == Join(f.path, <<"/">>)
      dotted == Replace(rel, "/", ".")
  IN ns \o <<".">> \o SubSeq(dotted, 1, Len(dotted) - 4)

(* C7: the list collect_sql_modules returns holds one entry per .sql file  *)
(* under the SQL root and none for other files; each name is the           *)
(* namespace, a dot, and the file's relative path with every separator     *)
(* replaced by a dot and the last four characters (.sql) dropped; the list *)
(* is ascending by name.                                                   *)
C7_SqlModuleNames ==
  pc = "write_sql" =>
    LET sqlFiles == SqlFilesOf(SrcModuleDir(CurModuleName))
        names == {DottedName(namespace, f) : f \in sqlFiles}
                   \cup {cur[i].name : i \in 1..Len(cur)}
    IN /\ Len(cur) = Cardinality(sqlFiles)
       /\ \A n \in names :
            Cardinality({i \in 1..Len(cur) : cur[i].name = n})
              = Cardinality({f \in sqlFiles : DottedName(namespace, f) = n})
       /\ \A i, j \in 1..Len(cur) : i < j => StrLeq(cur[i].name, cur[j].name)

C7_Witness ==
  /\ pc = "write_sql"
  /\ Len(cur) = 3
  /\ cur[1].name = <<"a","p","p",".","a",".","b",".","c">>
  /\ cur[2].name = <<"a","p","p",".","a",".","b",".","c">>
  /\ cur[3] = [name |-> <<"a","p","p",".","c","o","m","m","o","n">>,
               sql |-> <<"S","\n","\n","T">>]
  /\ \E f \in SrcModuleDir(CurModuleName).sql.entries :
       ~EndsWith(f.path[Len(f.path)], DotSql)

IsPerfExample ==
  /\ config = [exists |-> TRUE, namespace |-> <<"a","p","p">>,
               name |-> <<"E","x","t">>]
  /\ srcRoot = {DirEntry(<<"p","e","r","f">>, PerfModule)}

PerfManifestOk ==
  /\ files[ManifestPath].modules = <<[name |-> <<"p","e","r","f">>]>>
  /\ files[ManifestPath].name = <<"E","x","t">>
  /\ files[ManifestPath].namespace = <<"a","p","p">>

(* C8 as stated: for config {namespace: "app", name: "Ext"} and the single *)
(* module directory perf holding perf/sql_modules/q.sql = "SELECT 1;\n\n", *)
(* the build yields modules/perf/sql_modules with the one entry            *)
(* {name: "app.perf.q", sql: "SELECT 1;\n"} and a manifest listing perf as *)
(* the sole module.                                                        *)
C8_PerfExampleAsStated ==
  (IsPerfExample /\ pc = "done") =>
    /\ files[OutPath(<<"p","e","r","f">>, "sql_modules")] =
         [sql_modules |->
            <<[name |-> <<"a","p","p",".","p","e","r","f",".","q">>,
               sql |-> <<"S","E","L","E","C","T"," ","1",";","\n">>]>>]
    /\ PerfManifestOk

(* C8 as amended: for the same inputs the one entry is                     *)
(* {name: "app.q", sql: "SELECT 1;"}: the name is relative to the module's *)
(* SQL root and every trailing newline is stripped; the manifest lists     *)
(* perf as the sole module.                                                *)
C8_PerfExampleAmended ==
  (IsPerfExample /\ pc = "done") =>
    /\ files[OutPath(<<"p","e","r","f">>, "sql_modules")] =
         [sql_modules |->
            <<[name |-> <<"a","p","p",".","q">>,
               sql |-> <<"S","E","L","E","C","T"," ","1",";">>]>>]
    /\ PerfManifestOk

C8_Witness ==
  /\ IsPerfExample
  /\ pc = "done"
  /\ run = 1

(* C9: a missing protoc binary.  As stated: once one invocation has failed *)
(* because the binary was not found, the run attempts no further protoc    *)
(* invocation.                                                             *)
C9_NoInvocationAfterNotFound ==
  \A i \in 1..(Len(invoked) - 1) : invoked[i].result # "notfound"

(* C9 as amended: with protoc absent every invocation fails as not found,  *)
(* no .proto file is invoked twice, each invocation has a temp file of its *)
(* own, and when a module's proto_descriptors file has been written every  *)
(* .proto file of that module has had its one invocation.                  *)
C9_OneInvocationPerFile ==
  ~protocPresent =>
    /\ \A i \in 1..Len(invoked) : invoked[i].result = "notfound"
    /\ \A i, j \in 1..Len(invoked) : i < j =>
         /\ <<invoked[i].module, invoked[i].fn>> # <<invoked[j].module, invoked[j].fn>>
         /\ invoked[i].tmp # invoked[j].tmp
    /\ \A d \in ModuleDirs :
         OutPath(d.name, "proto_descriptors") \in Written =>
           \A e \in ProtoFilesOf(d.content) :
             \E i \in 1..Len(invoked) :
               invoked[i].module = d.name /\ invoked[i].fn = e.fn

C9_Witness ==
  /\ ~protocPresent
  /\ pc = "done"
  /\ Len(invoked) >= 4
  /\ \E i \in 1..Len(invoked) : invoked[i].module # invoked[1].module

(* C10: the output paths written by a run are, in every state, a prefix of *)
(* the fixed order (modules ascending; sql_modules, macros,                *)
(* proto_descriptors within a module; the manifest last), each file is     *)
(* written before the next collector runs, and a completed run has written *)
(* them all.                                                               *)
C10_WrittenIsPrefixOfOrder ==
  /\ Len(written) <= Len(OutputOrder)
  /\ written = SubSeq(OutputOrder, 1, Len(written))
  /\ pc \in {"sql", "write_sql"} => Len(written) = 3 * (idx - 1)
  /\ pc \in {"macros", "write_macros"} => Len(written) = 3 * (idx - 1) + 1
  /\ (pc = "protos" \/ InProtoCollector \/ pc = "write_protos")
       => Len(written) = 3 * (idx - 1) + 2
  /\ pc = "manifest" => Len(written) = Len(OutputOrder) - 1
  /\ pc \in {"summary", "done"} => written = OutputOrder

C10_Witness ==
  /\ pc = "aborted"
  /\ Len(written) \in {4, 5}
  /\ Len(OutputOrder) = 7

====
